---- MODULE Spec2Model ----
(***************************************************************************)
(* Sudoku-Validator.c: main loads a 9x9 grid, creates 27 threads (checkRow, *)
(* checkColumn, checkSubgrid), each of which scans one unit of its private  *)
(* copy of the grid and writes one slot of the global results table under a *)
(* global mutex; main joins the threads, reduces the table to isValid,      *)
(* prints the 27 messages and the summary line.                             *)
(***************************************************************************)
EXTENDS Integers, Sequences, FiniteSets, TLC

\* #define SIZE 9
SIZE == 9

\* #define NUM_THREADS (SIZE * 3)
NUM_THREADS == SIZE * 3

\* Scheduling bound: a thread is created only once the thread created
\* MaxWindow creations earlier has exited, so at most MaxWindow check
\* threads are alive together.
MaxWindow == 2

Idx == 0 .. (SIZE - 1)
Tids == 0 .. (NUM_THREADS - 1)

VARIABLES
    input,      \* the integers of the puzzle file, in file order
    readable,   \* fopen(filename, "r") succeeds
    window,     \* scheduling bound of this run (see MaxWindow)
    run,        \* 1 in the first execution of main, 2 in a repeated one
    first,      \* what the first execution left, once it is repeated
    sudoku,     \* main: int sudoku[SIZE][SIZE]
    mutex,      \* pthread_mutex_t mutex: its state and the tid that holds it
    results,    \* validationResult results[NUM_THREADS]
    params,     \* main: parameters params[NUM_THREADS]
    mainpc,     \* position of main
    mi, mj,     \* main: loop variables i, j
    isValid,    \* main: bool isValid
    out,        \* lines printed to stdout
    status,     \* "running" or the value main returned
    tfunc,      \* start routine of each created thread
    tpc,        \* position of each check thread
    loc,        \* locals of each check thread
    created,    \* tids in the order of their pthread_create
    joined,     \* tids in the order of their pthread_join
    writes,     \* per slot: the writes made to it, in order
    overtook    \* some thread exited while a thread created before it was alive

mainVars == <<sudoku, mainpc, mi, mj, isValid, out, status>>
thrVars  == <<tfunc, tpc, loc>>
histVars == <<created, joined, writes, overtook>>
envVars  == <<input, readable, window, run, first>>
vars == <<envVars, mutex, results, params, mainVars, thrVars, histVars>>

-----------------------------------------------------------------------------
\* Puzzle files.

\* A solved puzzle, 81 integers in row-major order.
Canonical ==
    << 5, 3, 4, 6, 7, 8, 9, 1, 2,
       6, 7, 2, 1, 9, 5, 3, 4, 8,
       1, 9, 8, 3, 4, 2, 5, 6, 7,
       8, 5, 9, 7, 6, 1, 4, 2, 3,
       4, 2, 6, 8, 5, 3, 7, 9, 1,
       7, 1, 3, 9, 2, 4, 8, 5, 6,
       9, 6, 1, 5, 3, 7, 2, 8, 4,
       2, 8, 7, 4, 1, 9, 6, 3, 5,
       3, 4, 5, 2, 8, 6, 1, 7, 9 >>

Pos(r, c) == r * SIZE + c + 1

\* Another solved puzzle: the transpose of Canonical.
Transposed == [k \in 1 .. SIZE * SIZE |->
                 Canonical[Pos((k - 1) % SIZE, (k - 1) \div SIZE)]]

\* A third solved puzzle, built by shifting.
Shifted == [k \in 1 .. SIZE * SIZE |->
              LET r == (k - 1) \div SIZE
                  c == (k - 1) % SIZE
              IN  ((3 * (r % 3) + (r \div 3) + c) % SIZE) + 1]

\* Every row is 1..9: the rows are fine, the columns and subgrids are not.
SameRows == [k \in 1 .. SIZE * SIZE |-> ((k - 1) % SIZE) + 1]

\* Only out-of-range values.
Zeros == [k \in 1 .. SIZE * SIZE |-> 0]

Solved == {Canonical, Transposed, Shifted}

Overwrite(g, r, c, v) == [g EXCEPT ![Pos(r, c)] = v]

\* Values written over one cell: in range, 0, negative, greater than 9.
CellValues == {-1, 0, 10} \cup (1 .. SIZE)

\* The cells that are overwritten: two transversals of the grid, each with one
\* cell in every row, every column and every subgrid; (4,4) is among them.
EditCells == {<<r, (3 * r + (r \div 3) + k) % SIZE>> : r \in Idx, k \in {0, 4}}

\* Canonical with one cell overwritten.
OneEdit == {Overwrite(Canonical, p[1], p[2], v) : p \in EditCells, v \in CellValues}

\* Canonical with the values of (0,0) and (0,1) swapped.
Swapped == [Canonical EXCEPT ![Pos(0, 0)] = Canonical[Pos(0, 1)],
                             ![Pos(0, 1)] = Canonical[Pos(0, 0)]]

\* Files of the sequential runs.
SeqInputs == Solved \cup OneEdit \cup {SameRows, Zeros, Swapped}

\* Files that do not hold 81 integers: the last one or two are missing.
Short == {SubSeq(Canonical, 1, SIZE * SIZE - k) : k \in 1 .. 2}

\* Files of the runs that look at the loader.
LoadInputs == {Canonical} \cup Short

\* Files of the runs under fair scheduling: every row thread takes the valid
\* path and the other threads the INVALID path, or three threads only do.
FairInputs == {SameRows, Overwrite(Canonical, 4, 4, 0)}

\* Files of the repeated runs.
TwiceInputs == {Canonical, Overwrite(Canonical, 4, 4, 0)}

\* Files of the concurrent runs.
ConcInputs == {Canonical,
               Overwrite(Canonical, 4, 4, 0),
               Overwrite(Canonical, 8, 8, 1),
               SameRows}

-----------------------------------------------------------------------------
\* Formatting.

\* printf's %d of a non-negative int.
FmtD(n) == ToString(n)

\* printf's %2d: right-aligned in a field of width 2.
Fmt2d(n) == IF n >= 0 /\ n < 10 THEN <<" ", ToString(n)>> ELSE <<ToString(n)>>

\* sprintf(results[row].message, "Thread # %2d (row %d) is ...\n", row + 1, row + 1)
RowMessage(row, text) ==
    <<"Thread # ">> \o Fmt2d(row + 1) \o <<" (row ", FmtD(row + 1), text>>

\* sprintf(..., "Thread # %2d (column %d) is ...\n", col + 10, col + 1)
ColMessage(col, text) ==
    <<"Thread # ">> \o Fmt2d(col + 10) \o <<" (column ", FmtD(col + 1), text>>

\* sprintf(..., "Thread # %2d (subgrid %d) is ...\n", index + 1, index - (2 * SIZE) + 1)
SubMessage(index, text) ==
    <<"Thread # ">> \o Fmt2d(index + 1)
        \o <<" (subgrid ", FmtD(index - (2 * SIZE) + 1), text>>

InvalidText == ") is INVALID\n"
ValidText   == ") is valid\n"

-----------------------------------------------------------------------------
\* The three check routines: the parts they differ in.

\* Faulty variant: the upper bound is off by one, num > SIZE + 1.
OutOfRangeAboveTen(num) == num < 1 \/ num > SIZE + 1

\* Faulty variant: the lower bound off by one (num < 0).
OutOfRangeFromZero(num) == num < 0 \/ num > SIZE

\* num < 1 || num > SIZE
OutOfRange(num) == num < 1 \/ num > SIZE

\* check[num - 1] as read by the postfix ++: the count before the increment.
\* An index outside the array reads whatever lies there (ub).
ReadCheck(chk, k, ub) == IF k \in DOMAIN chk THEN chk[k] ELSE ub

\* Faulty variant: the seen-marker is never set.
IncCheckNone(chk, k) == chk

\* The increment of check[num - 1]++.
IncCheck(chk, k) == IF k \in DOMAIN chk THEN [chk EXCEPT ![k] = @ + 1] ELSE chk

\* Faulty variant: ++check[num - 1], the count after the increment.
SeenBeforePrefix(chk, num, ub) == ReadCheck(chk, num - 1, ub) + 1 # 0

\* check[num - 1]++ as a condition: true when the value was seen before.
SeenBefore(chk, num, ub) == ReadCheck(chk, num - 1, ub) # 0

\* Faulty variant: the 1-based number of the row is used as the index, so that
\* slot 0 is never written.
RowSlotOneBased(row) == row + 1

\* results[row]
RowSlot(row) == row

\* Faulty variant: results[col], the offset of the column slots forgotten.
ColSlotNoOffset(col) == col

\* results[SIZE + col]
ColSlot(col) == SIZE + col

\* Faulty variant: the block row not scaled by 3.
SubgridIndexNoScale(rowStart, colStart) ==
    (rowStart \div 3) + (colStart \div 3) + (2 * SIZE)

\* int index = (rowStart / 3) * 3 + (colStart / 3) + (2 * SIZE);
SubgridIndex(rowStart, colStart) ==
    (rowStart \div 3) * 3 + (colStart \div 3) + (2 * SIZE)

\* Faulty variant: both loop variables divided by 3.
MainSubIndexBothDivided(i, j) == 2 * SIZE + ((i \div 3) + (j \div 3))

\* main: int index = 2*SIZE + (i + j/3);
MainSubIndex(i, j) == 2 * SIZE + (i + (j \div 3))

\* The slot thread t writes.
TSlot(t) ==
    CASE tfunc[t] = "checkRow"     -> RowSlot(loc[t].row)
      [] tfunc[t] = "checkColumn"  -> ColSlot(loc[t].col)
      [] tfunc[t] = "checkSubgrid" -> loc[t].index

\* The message thread t formats, on the INVALID or on the valid path.
TMessage(t) ==
    LET text == IF loc[t].path = "INVALID" THEN InvalidText ELSE ValidText
    IN  CASE tfunc[t] = "checkRow"     -> RowMessage(loc[t].row, text)
          [] tfunc[t] = "checkColumn"  -> ColMessage(loc[t].col, text)
          [] tfunc[t] = "checkSubgrid" -> SubMessage(loc[t].index, text)

\* Faulty variant: valid = 0 on both paths.
TVerdictZero(t) == 0

\* results[...].valid = 0; on the INVALID path, = 1; on the valid path.
TVerdict(t) == IF loc[t].path = "INVALID" THEN 0 ELSE 1

\* Locals of a thread that has not started. cells and used record the cells
\* the scan read and the indices it applied to check[], in order.
NoLocals == [row |-> 0, col |-> 0, index |-> 0, i |-> 0, j |-> 0,
             check |-> [k \in Idx |-> 0], path |-> "none",
             cells |-> <<>>, used |-> <<>>]

\* A parameter block main has not filled in.
NoParams == [row |-> 0, col |-> 0, sudoku |-> <<>>]

\* The owner field of a mutex nobody holds.
NoOwner == 0 - 1

\* A zero-initialised validationResult.
ZeroResult == [valid |-> 0, message |-> <<>>]

-----------------------------------------------------------------------------
\* State after program start, before main's first statement.

InitCommon ==
    /\ run = 1
    /\ first = <<>>
    /\ sudoku = <<>>
    /\ mutex = [state |-> "uninit", owner |-> NoOwner]
    /\ results = [s \in Tids |-> ZeroResult]
    /\ params = [t \in Tids |-> NoParams]
    /\ mainpc = "load"
    /\ mi = 0
    /\ mj = 0
    /\ isValid = TRUE
    /\ out = <<>>
    /\ status = "running"
    /\ tfunc = [t \in Tids |-> "none"]
    /\ tpc = [t \in Tids |-> "none"]
    /\ loc = [t \in Tids |-> NoLocals]
    /\ created = <<>>
    /\ joined = <<>>
    /\ writes = [s \in Tids |-> <<>>]
    /\ overtook = FALSE

Init ==
    /\ input \in ConcInputs
    /\ readable = TRUE
    /\ window = MaxWindow
    /\ InitCommon

\* The concurrent runs whose scheduling is fair.
InitFair ==
    /\ input \in FairInputs
    /\ readable = TRUE
    /\ window = MaxWindow
    /\ InitCommon

\* The runs that are repeated.
InitTwice ==
    /\ input \in TwiceInputs
    /\ readable = TRUE
    /\ window = MaxWindow
    /\ InitCommon

\* The runs over files that may be short or cannot be opened.
InitLoad ==
    /\ input \in LoadInputs
    /\ readable \in BOOLEAN
    /\ window = 1
    /\ InitCommon

\* The runs in which every thread exits before the next one is created.
InitSeq ==
    /\ input \in SeqInputs
    /\ readable = TRUE
    /\ window = 1
    /\ InitCommon

-----------------------------------------------------------------------------
\* main

\* What int sudoku[SIZE][SIZE], which main does not initialise, may hold in a
\* cell that no fscanf call stored into.
Indeterminate == {0, 7, 9}

\* The grids loadSudoku can leave from the integers f of a file: the k-th
\* fscanf call stores f[k]; once the integers run out fscanf stores nothing
\* and its return value is not looked at, so the cell keeps what it held.
Loaded(f) ==
    {[i \in Idx |-> [j \in Idx |->
         IF Pos(i, j) <= Len(f) THEN f[Pos(i, j)] ELSE junk[Pos(i, j)]]] :
       junk \in [(Len(f) + 1) .. (SIZE * SIZE) -> Indeterminate]}

\* loadSudoku(argv[1], sudoku): exit(EXIT_FAILURE) after perror (on stderr)
\* when fopen fails; otherwise fscanf(file, "%d", &sudoku[i][j]) for i, j in
\* row-major order.
loadSudoku ==
    /\ mainpc = "load"
    /\ IF readable
         THEN /\ sudoku' \in Loaded(input)
              /\ mainpc' = "mutex_init"
              /\ status' = status
         ELSE /\ sudoku' = sudoku
              /\ mainpc' = "done"
              /\ status' = "EXIT_FAILURE"
    /\ UNCHANGED <<envVars, mutex, results, params, mi, mj, isValid, out,
                   thrVars, histVars>>

\* pthread_mutex_init(&mutex, NULL);
MutexInit ==
    /\ mainpc = "mutex_init"
    /\ mutex' = [state |-> "free", owner |-> NoOwner]
    /\ mainpc' = "row_fill"
    /\ mi' = 0
    /\ UNCHANGED <<envVars, sudoku, results, params, mj, isValid, out,
                   status, thrVars, histVars>>

\* The scheduling bound on thread creation.
CanSpawn ==
    IF Len(created) < window THEN TRUE
    ELSE tpc[created[Len(created) - window + 1]] = "done"

\* pthread_create(&tids[t], NULL, f, &params[t])
Spawn(t, f) ==
    /\ CanSpawn
    /\ tfunc' = [tfunc EXCEPT ![t] = f]
    /\ tpc' = [tpc EXCEPT ![t] = "start"]
    /\ loc' = [loc EXCEPT ![t] = NoLocals]
    /\ created' = Append(created, t)

\* Faulty variant: memcpy(params[i].sudoku, sudoku, SIZE*sizeof(int)) copies
\* the first row only (the other rows of the copy shown as 0).
RowFillFirstRowOnly ==
    /\ mainpc = "row_fill"
    /\ params' = [params EXCEPT ![mi] =
                    [row |-> mi, col |-> 0,
                     sudoku |-> [i \in Idx |->
                                   IF i = 0 THEN sudoku[0] ELSE [j \in Idx |-> 0]]]]
    /\ mainpc' = "row_create"
    /\ UNCHANGED <<envVars, sudoku, mutex, results, mi, mj, isValid, out,
                   status, thrVars, histVars>>

\* params[i].row = i; params[i].col = 0; memcpy(params[i].sudoku, sudoku, ...)
RowFill ==
    /\ mainpc = "row_fill"
    /\ params' = [params EXCEPT ![mi] = [row |-> mi, col |-> 0, sudoku |-> sudoku]]
    /\ mainpc' = "row_create"
    /\ UNCHANGED <<envVars, sudoku, mutex, results, mi, mj, isValid, out,
                   status, thrVars, histVars>>

\* pthread_create(&tids[i], NULL, checkRow, &params[i]);
RowCreate ==
    /\ mainpc = "row_create"
    /\ Spawn(mi, "checkRow")
    /\ mainpc' = "col_fill"
    /\ UNCHANGED <<envVars, sudoku, mutex, results, params, mi, mj,
                   isValid, out, status, joined, writes, overtook>>

\* params[SIZE + i].row = 0; params[SIZE + i].col = i; memcpy(...)
ColFill ==
    /\ mainpc = "col_fill"
    /\ params' = [params EXCEPT ![SIZE + mi] =
                     [row |-> 0, col |-> mi, sudoku |-> sudoku]]
    /\ mainpc' = "col_create"
    /\ UNCHANGED <<envVars, sudoku, mutex, results, mi, mj, isValid, out,
                   status, thrVars, histVars>>

\* pthread_create(&tids[SIZE + i], NULL, checkColumn, &params[SIZE + i]); i++
ColCreate ==
    /\ mainpc = "col_create"
    /\ Spawn(SIZE + mi, "checkColumn")
    /\ IF mi + 1 < SIZE
         THEN /\ mi' = mi + 1
              /\ mj' = mj
              /\ mainpc' = "row_fill"
         ELSE /\ mi' = 0
              /\ mj' = 0
              /\ mainpc' = "sub_fill"
    /\ UNCHANGED <<envVars, sudoku, mutex, results, params, isValid, out,
                   status, joined, writes, overtook>>

\* params[index].row = i; params[index].col = j; memcpy(...)
SubFill ==
    /\ mainpc = "sub_fill"
    /\ params' = [params EXCEPT ![MainSubIndex(mi, mj)] =
                     [row |-> mi, col |-> mj, sudoku |-> sudoku]]
    /\ mainpc' = "sub_create"
    /\ UNCHANGED <<envVars, sudoku, mutex, results, mi, mj, isValid, out,
                   status, thrVars, histVars>>

\* pthread_create(&tids[index], NULL, checkSubgrid, &params[index]); j += 3 ...
SubCreate ==
    /\ mainpc = "sub_create"
    /\ Spawn(MainSubIndex(mi, mj), "checkSubgrid")
    /\ IF mj + 3 < SIZE
         THEN /\ mj' = mj + 3
              /\ mi' = mi
              /\ mainpc' = "sub_fill"
         ELSE IF mi + 3 < SIZE
                THEN /\ mj' = 0
                     /\ mi' = mi + 3
                     /\ mainpc' = "sub_fill"
                ELSE /\ mj' = 0
                     /\ mi' = 0
                     /\ mainpc' = "join"
    /\ UNCHANGED <<envVars, sudoku, mutex, results, params, isValid, out,
                   status, joined, writes, overtook>>

\* Faulty variant: the join does not wait for the thread to terminate.
JoinReturnsAtOnce(t) == tpc[t] # "none"

\* pthread_join(tids[t], NULL) returns once thread t has terminated.
JoinReturns(t) == tpc[t] = "done"

\* for (i = 0; i < NUM_THREADS; i++) pthread_join(tids[i], NULL);
Join ==
    /\ mainpc = "join"
    /\ JoinReturns(mi)
    /\ joined' = Append(joined, mi)
    /\ IF mi + 1 < NUM_THREADS
         THEN /\ mi' = mi + 1
              /\ mainpc' = "join"
              /\ isValid' = isValid
         ELSE /\ mi' = 0
              /\ mainpc' = "reduce"
              /\ isValid' = TRUE     \* bool isValid = true;
    /\ UNCHANGED <<envVars, sudoku, mutex, results, params, mj,
                   out, status, thrVars, created, writes, overtook>>


\* Faulty variant: isValid = (results[i].valid != 0) in every iteration, no break.
ReduceOverwrite ==
    /\ mainpc = "reduce"
    /\ isValid' = (results[mi].valid # 0)
    /\ mi' = mi + 1
    /\ mainpc' = IF mi + 1 < NUM_THREADS THEN "reduce" ELSE "print"
    /\ UNCHANGED <<envVars, sudoku, mutex, results, params, mj, out,
                   status, thrVars, histVars>>

\* if (results[i].valid == 0) { isValid = false; break; }
Reduce ==
    /\ mainpc = "reduce"
    /\ IF results[mi].valid = 0
         THEN /\ isValid' = FALSE
              /\ mi' = mi
              /\ mainpc' = "print"
         ELSE /\ isValid' = isValid
              /\ mi' = mi + 1
              /\ mainpc' = IF mi + 1 < NUM_THREADS THEN "reduce" ELSE "print"
    /\ UNCHANGED <<envVars, sudoku, mutex, results, params, mj, out,
                   status, thrVars, histVars>>

\* printResults: printf("%s", results[i].message) for i = 0 .. NUM_THREADS-1,
\* in both branches of the if.
printResults ==
    /\ mainpc = "print"
    /\ out' = out \o [k \in 1 .. NUM_THREADS |-> results[k - 1].message]
    /\ mainpc' = "mutex_destroy"
    /\ UNCHANGED <<envVars, sudoku, mutex, results, params, mi, mj,
                   isValid, status, thrVars, histVars>>

\* pthread_mutex_destroy(&mutex);
MutexDestroy ==
    /\ mainpc = "mutex_destroy"
    /\ mutex' = [state |-> "destroyed", owner |-> NoOwner]
    /\ mainpc' = "final"
    /\ UNCHANGED <<envVars, sudoku, results, params, mi, mj, isValid,
                   out, status, thrVars, histVars>>

\* printf("%s contains a valid solution\n", argv[1]) or "... an INVALID ..."
SummaryLine(ok) ==
    IF ok THEN <<"argv[1]", " contains a valid solution\n">>
    ELSE <<"argv[1]", " contains an INVALID solution\n">>

\* The final printf and return EXIT_SUCCESS;
Final ==
    /\ mainpc = "final"
    /\ out' = Append(out, SummaryLine(isValid))
    /\ status' = "EXIT_SUCCESS"
    /\ mainpc' = "done"
    /\ UNCHANGED <<envVars, sudoku, mutex, results, params, mi, mj,
                   isValid, thrVars, histVars>>

\* A second execution of main on the same file in the same process image:
\* the objects of static storage (results, mutex) and the output stream keep
\* what the first execution left; the automatic objects of main (sudoku,
\* tids, params, isValid) and all threads are new. first keeps the table,
\* the verdict and the output of the first execution for comparison.
Rerun ==
    /\ mainpc = "done"
    /\ status = "EXIT_SUCCESS"
    /\ run = 1
    /\ run' = 2
    /\ first' = [results |-> results, isValid |-> isValid, out |-> out]
    /\ sudoku' = <<>>
    /\ params' = [t \in Tids |-> NoParams]
    /\ mainpc' = "load"
    /\ mi' = 0
    /\ mj' = 0
    /\ status' = "running"
    /\ tfunc' = [t \in Tids |-> "none"]
    /\ tpc' = [t \in Tids |-> "none"]
    /\ loc' = [t \in Tids |-> NoLocals]
    /\ created' = <<>>
    /\ joined' = <<>>
    /\ writes' = [s \in Tids |-> <<>>]
    /\ UNCHANGED <<input, readable, window, mutex, results, isValid, out,
                   overtook>>

-----------------------------------------------------------------------------
\* The check threads.

\* The body of the scan loop on cell (r, c) of grid g, with locals l:
\*   int num = data->sudoku[r][c];
\*   if (num < 1 || num > SIZE || check[num - 1]++) -> the INVALID path
\* A range test that fails short-circuits the rest of the condition.
Inspect(l, g, r, c, ub) ==
    LET num == g[r][c]
        at  == [l EXCEPT !.cells = Append(@, <<r, c>>)]
    IN  IF OutOfRange(num)
          THEN [at EXCEPT !.path = "INVALID"]
          ELSE IF SeenBefore(l.check, num, ub)
                 THEN [at EXCEPT !.path = "INVALID",
                                 !.check = IncCheck(@, num - 1),
                                 !.used = Append(@, num - 1)]
                 ELSE [at EXCEPT !.check = IncCheck(@, num - 1),
                                 !.used = Append(@, num - 1)]

\* Faulty variant: the INVALID branch only notes the finding and the loop goes
\* on to the remaining cells of the row.
RECURSIVE ScanRowNoStop(_, _, _)
ScanRowNoStop(l, g, ub) ==
    IF l.i < SIZE
      THEN CHOOSE end \in
             {ScanRowNoStop([m EXCEPT !.i = @ + 1], g, ub) :
                m \in {Inspect(l, g, l.row, l.i, ub)}} : TRUE
      ELSE IF l.path = "INVALID" THEN l ELSE [l EXCEPT !.path = "valid"]

\* checkRow: for (int i = 0; i < SIZE; i++) { num = data->sudoku[row][i]; ... }
\* run from locals l to the point where the thread asks for the mutex.
\* (m \in {...} binds the locals after the loop body as a value.)
RECURSIVE ScanRow(_, _, _)
ScanRow(l, g, ub) ==
    IF l.i < SIZE
      THEN CHOOSE end \in
             {IF m.path = "INVALID" THEN m
              ELSE ScanRow([m EXCEPT !.i = @ + 1], g, ub) :
                m \in {Inspect(l, g, l.row, l.i, ub)}} : TRUE
      ELSE [l EXCEPT !.path = "valid"]

\* Faulty variant: num = data->sudoku[col][i], the subscripts exchanged.
ScanColumnAsRow(l, g, ub) == ScanRow([l EXCEPT !.row = l.col], g, ub)

\* checkColumn: for (int i = 0; i < SIZE; i++) { num = data->sudoku[i][col]; ... }
RECURSIVE ScanColumn(_, _, _)
ScanColumn(l, g, ub) ==
    IF l.i < SIZE
      THEN CHOOSE end \in
             {IF m.path = "INVALID" THEN m
              ELSE ScanColumn([m EXCEPT !.i = @ + 1], g, ub) :
                m \in {Inspect(l, g, l.i, l.col, ub)}} : TRUE
      ELSE [l EXCEPT !.path = "valid"]

\* checkSubgrid: for (row = rowStart; row < rowStart + 3; row++)
\*                 for (col = colStart; col < colStart + 3; col++) { ... }
\* with the loop variables row, col kept in l.i, l.j.
RECURSIVE ScanSubgrid(_, _, _)
ScanSubgrid(l, g, ub) ==
    IF l.i < l.row + 3
      THEN IF l.j < l.col + 3
             THEN CHOOSE end \in
                    {IF m.path = "INVALID" THEN m
                     ELSE ScanSubgrid([m EXCEPT !.j = @ + 1], g, ub) :
                       m \in {Inspect(l, g, l.i, l.j, ub)}} : TRUE
             ELSE CHOOSE end \in
                    {ScanSubgrid(m, g, ub) :
                       m \in {[l EXCEPT !.i = @ + 1, !.j = l.col]}} : TRUE
      ELSE [l EXCEPT !.path = "valid"]

\* Faulty variant: pthread_mutex_lock is called before the loop, so the scan
\* runs with the mutex held.
RunScanUnderLock(t, l) ==
    /\ tpc[t] = "start"
    /\ mutex.state = "free"
    /\ mutex' = [state |-> "locked", owner |-> t]
    /\ loc' = [loc EXCEPT ![t] = l]
    /\ tpc' = [tpc EXCEPT ![t] = "msg"]
    /\ UNCHANGED <<envVars, results, params, mainVars, tfunc, histVars>>

\* A check thread from its start to its pthread_mutex_lock call: it reads
\* only its parameter block and writes only its locals.
RunScan(t, l) ==
    /\ tpc[t] = "start"
    /\ loc' = [loc EXCEPT ![t] = l]
    /\ tpc' = [tpc EXCEPT ![t] = "lock"]
    /\ UNCHANGED <<envVars, mutex, results, params, mainVars, tfunc,
                   histVars>>

\* void *checkRow(void *params): int row = data->row; int check[SIZE] = {0};
\* (ub: the value a read outside check[] would yield.)
checkRow(t) ==
    /\ tfunc[t] = "checkRow"
    /\ \E ub \in {0, 1} :
         RunScan(t, ScanRow([NoLocals EXCEPT !.row = params[t].row],
                            params[t].sudoku, ub))

\* void *checkColumn(void *params): int col = data->col; int check[SIZE] = {0};
checkColumn(t) ==
    /\ tfunc[t] = "checkColumn"
    /\ \E ub \in {0, 1} :
         RunScan(t, ScanColumn([NoLocals EXCEPT !.col = params[t].col],
                               params[t].sudoku, ub))

\* void *checkSubgrid(void *params): rowStart = data->row; colStart = data->col;
\* index = ...; the loops start at row = rowStart, col = colStart.
checkSubgrid(t) ==
    /\ tfunc[t] = "checkSubgrid"
    /\ \E ub \in {0, 1} :
         RunScan(t, ScanSubgrid(
                      [NoLocals EXCEPT
                         !.row = params[t].row,
                         !.col = params[t].col,
                         !.index = SubgridIndex(params[t].row, params[t].col),
                         !.i = params[t].row,
                         !.j = params[t].col],
                      params[t].sudoku, ub))

\* Faulty variant: the lock excludes nobody.
MutexAvailableAlways == mutex.state \in {"free", "locked"}

\* pthread_mutex_lock succeeds when no thread holds the mutex.
MutexAvailable == mutex.state = "free"

\* pthread_mutex_lock(&mutex);
Lock(t) ==
    /\ tpc[t] = "lock"
    /\ MutexAvailable
    /\ mutex' = [state |-> "locked", owner |-> t]
    /\ tpc' = [tpc EXCEPT ![t] = "msg"]
    /\ UNCHANGED <<envVars, results, params, mainVars, tfunc, loc,
                   histVars>>

\* Faulty variant: strcat(results[slot].message, ...), which appends to what
\* the slot holds.
WriteMessageAppend(t) ==
    /\ tpc[t] = "msg"
    /\ results' = [results EXCEPT ![TSlot(t)].message = @ \o TMessage(t)]
    /\ writes' = [writes EXCEPT ![TSlot(t)] =
                    Append(@, [by |-> t, field |-> "message"])]
    /\ tpc' = [tpc EXCEPT ![t] = "valid"]
    /\ UNCHANGED <<envVars, mutex, params, mainVars, tfunc, loc,
                   created, joined, overtook>>

\* sprintf(results[slot].message, ...);
WriteMessage(t) ==
    /\ tpc[t] = "msg"
    /\ results' = [results EXCEPT ![TSlot(t)].message = TMessage(t)]
    /\ writes' = [writes EXCEPT ![TSlot(t)] =
                    Append(@, [by |-> t, field |-> "message"])]
    /\ tpc' = [tpc EXCEPT ![t] = "valid"]
    /\ UNCHANGED <<envVars, mutex, params, mainVars, tfunc, loc,
                   created, joined, overtook>>

\* results[slot].valid = 0; or = 1;
WriteValid(t) ==
    /\ tpc[t] = "valid"
    /\ results' = [results EXCEPT ![TSlot(t)].valid = TVerdict(t)]
    /\ writes' = [writes EXCEPT ![TSlot(t)] =
                    Append(@, [by |-> t, field |-> "valid"])]
    /\ tpc' = [tpc EXCEPT ![t] = "unlock"]
    /\ UNCHANGED <<envVars, mutex, params, mainVars, tfunc, loc,
                   created, joined, overtook>>

\* Faulty variant: the INVALID path leaves the loop without the unlock call.
UnlockOnValidPath(t) ==
    /\ tpc[t] = "unlock"
    /\ mutex' = IF loc[t].path = "INVALID" THEN mutex
                ELSE [state |-> "free", owner |-> NoOwner]
    /\ tpc' = [tpc EXCEPT ![t] = "exit"]
    /\ UNCHANGED <<envVars, results, params, mainVars, tfunc, loc,
                   histVars>>

\* pthread_mutex_unlock(&mutex);
Unlock(t) ==
    /\ tpc[t] = "unlock"
    /\ mutex' = [state |-> "free", owner |-> NoOwner]
    /\ tpc' = [tpc EXCEPT ![t] = "exit"]
    /\ UNCHANGED <<envVars, results, params, mainVars, tfunc, loc,
                   histVars>>

\* A thread created before t has not terminated yet.
EarlierAlive(t) ==
    \E k, m \in 1 .. Len(created) :
        /\ k < m
        /\ created[m] = t
        /\ tpc[created[k]] # "done"

\* pthread_exit(NULL);
Exit(t) ==
    /\ tpc[t] = "exit"
    /\ tpc' = [tpc EXCEPT ![t] = "done"]
    /\ overtook' = IF EarlierAlive(t) THEN TRUE ELSE overtook
    /\ UNCHANGED <<envVars, mutex, results, params, mainVars, tfunc, loc,
                   created, joined, writes>>

\* The steps of thread t.
ThreadStep(t) ==
    \/ checkRow(t)
    \/ checkColumn(t)
    \/ checkSubgrid(t)
    \/ Lock(t)
    \/ WriteMessage(t)
    \/ WriteValid(t)
    \/ Unlock(t)
    \/ Exit(t)

-----------------------------------------------------------------------------
Next ==
    \/ loadSudoku
    \/ MutexInit
    \/ RowFill
    \/ RowCreate
    \/ ColFill
    \/ ColCreate
    \/ SubFill
    \/ SubCreate
    \/ Join
    \/ Reduce
    \/ printResults
    \/ MutexDestroy
    \/ Final
    \/ \E t \in Tids : checkRow(t)
    \/ \E t \in Tids : checkColumn(t)
    \/ \E t \in Tids : checkSubgrid(t)
    \/ \E t \in Tids : Lock(t)
    \/ \E t \in Tids : WriteMessage(t)
    \/ \E t \in Tids : WriteValid(t)
    \/ \E t \in Tids : Unlock(t)
    \/ \E t \in Tids : Exit(t)

Spec == Init /\ [][Next]_vars

SpecLoad == InitLoad /\ [][Next]_vars

\* The concurrent runs under a scheduler that does not stop while main or a
\* thread can take a step: a runnable thread is eventually given the
\* processor, and pthread_mutex_lock and pthread_join return once the mutex is
\* free or the thread has terminated.
SpecFair == InitFair /\ [][Next]_vars /\ WF_vars(Next)

\* The runs in which main is executed a second time.
NextTwice ==
    \/ Next
    \/ Rerun

SpecTwice == InitTwice /\ [][NextTwice]_vars

SpecSeq == InitSeq /\ [][Next]_vars

-----------------------------------------------------------------------------
\* Vocabulary of the properties.

\* main is past the join loop.
PostJoin == mainpc \in {"reduce", "print", "mutex_destroy", "final", "done"}

\* The cells of the unit reported in slot s: rows 0-8 in slots 0-8, columns
\* 0-8 in slots 9-17, subgrids in row-major block order in slots 18-26.
UnitCells(s) ==
    IF s < SIZE THEN {<<s, c>> : c \in Idx}
    ELSE IF s < 2 * SIZE THEN {<<r, s - SIZE>> : r \in Idx}
    ELSE LET br == (s - 2 * SIZE) \div 3
             bc == (s - 2 * SIZE) % 3
         IN  {<<3 * br + a, 3 * bc + b>> : a \in 0 .. 2, b \in 0 .. 2}

\* The three slots of the units that contain cell (r, c).
SlotsOfCell(r, c) == {r, SIZE + c, 2 * SIZE + 3 * (r \div 3) + (c \div 3)}

\* The 9 cells of a unit hold each of the digits 1..9 exactly once: the set
\* of their values is the whole of 1..9.
IsPermutation(g, cells) == {g[p[1]][p[2]] : p \in cells} = 1 .. SIZE

\* The threads that have stored their verdict.
Stored == {t \in Tids : tpc[t] \in {"unlock", "exit", "done"}}

\* Two cells of the set hold the same value.
HasDuplicate(g, cells) ==
    \E p, q \in cells : p # q /\ g[p[1]][p[2]] = g[q[1]][q[2]]

\* Every row, column and subgrid of g is a permutation of 1..9.
SolvedGrid(g) == \A s \in Tids : IsPermutation(g, UnitCells(s))

\* The slots that hold the INVALID verdict.
InvalidSlots == {s \in Tids : results[s].valid = 0}

\* The line that reports slot s with verdict ok.
ExpectedMessage(s, ok) ==
    LET no   == IF s + 1 < 10 THEN <<" ", ToString(s + 1)>> ELSE <<ToString(s + 1)>>
        kind == IF s < SIZE THEN " (row "
                ELSE IF s < 2 * SIZE THEN " (column " ELSE " (subgrid "
        unit == ToString((s % SIZE) + 1)
        text == IF ok THEN ") is valid\n" ELSE ") is INVALID\n"
    IN  <<"Thread # ">> \o no \o <<kind, unit, text>>

\* The result table that the grid g determines.
ExpectedResults(g) ==
    [s \in Tids |->
       LET ok == IsPermutation(g, UnitCells(s))
       IN  [valid |-> IF ok THEN 1 ELSE 0, message |-> ExpectedMessage(s, ok)]]

\* The output that the grid g determines: 27 lines in slot order, then the
\* summary.
ExpectedOut(g) ==
    [k \in 1 .. NUM_THREADS |-> ExpectedResults(g)[k - 1].message]
        \o << <<"argv[1]", IF SolvedGrid(g) THEN " contains a valid solution\n"
                           ELSE " contains an INVALID solution\n">> >>

-----------------------------------------------------------------------------
\* C1: for every grid and every unit, the verdict the unit's thread has stored
\* in its slot is 1 if and only if the unit's 9 cells hold each digit 1..9
\* exactly once, and 0 otherwise.
C1_VerdictIffPermutation ==
    \A t \in Stored :
        /\ results[t].valid \in {0, 1}
        /\ results[t].valid = 1 <=> IsPermutation(sudoku, UnitCells(t))

\* A run has ended with valid and INVALID units in the table.
C1_Witness ==
    /\ mainpc = "done"
    /\ \E s \in Tids : results[s].valid = 1 /\ IsPermutation(sudoku, UnitCells(s))
    /\ \E s \in Tids : results[s].valid = 0 /\ ~IsPermutation(sudoku, UnitCells(s))

\* C2: after the reduction loop isValid is true if and only if all 27 slots
\* have valid = 1, whichever slot is the first invalid one.
C2_AggregateIsConjunction ==
    mainpc \in {"print", "mutex_destroy", "final", "done"} =>
        (isValid <=> \A s \in Tids : results[s].valid = 1)

\* The loop broke at an invalid slot that is not the first slot, with valid
\* slots after it.
C2_Witness ==
    /\ mainpc = "print"
    /\ ~isValid
    /\ mi > 0
    /\ \E s \in Tids : s > mi /\ results[s].valid = 1

\* C3: when the program ends, the 27 slots, the lines printed in slot order
\* and the overall verdict are those the grid determines, whatever the
\* interleaving and completion order of the threads was.
C3_ResultIndependentOfInterleaving ==
    mainpc = "done" =>
        /\ results = ExpectedResults(sudoku)
        /\ out = ExpectedOut(sudoku)
        /\ isValid = SolvedGrid(sudoku)

\* A run has ended in which a thread finished before one created earlier,
\* on a grid with INVALID units.
C3_Witness ==
    /\ mainpc = "done"
    /\ overtook
    /\ InvalidSlots # {}
    /\ out = ExpectedOut(sudoku)

\* C4: row i writes slot i, column i slot 9+i, the subgrid at (3br, 3bc) slot
\* 18+3br+bc; the index main uses for a thread's tid and parameter block is
\* the slot the thread computes; every tid is created once and, after the
\* join loop, all 27 are created and joined once.
C4_SlotBijection ==
    /\ \A t \in Tids :
         tpc[t] \notin {"none", "start"} =>
            /\ TSlot(t) = t
            /\ tfunc[t] = "checkRow" =>
                 t \in 0 .. SIZE - 1 /\ params[t].row = t
            /\ tfunc[t] = "checkColumn" =>
                 t \in SIZE .. 2 * SIZE - 1 /\ params[t].col = t - SIZE
            /\ tfunc[t] = "checkSubgrid" =>
                 \E br, bc \in 0 .. 2 :
                    /\ params[t].row = 3 * br
                    /\ params[t].col = 3 * bc
                    /\ t = 2 * SIZE + 3 * br + bc
    /\ \A k, m \in 1 .. Len(created) : created[k] = created[m] => k = m
    /\ \A k \in 1 .. Len(created) : created[k] \in Tids
    /\ mainpc \in {"join"} \cup {"reduce", "print", "mutex_destroy", "final", "done"} =>
         {created[k] : k \in 1 .. Len(created)} = Tids
    /\ PostJoin => joined = [k \in 1 .. NUM_THREADS |-> k - 1]

\* All 27 threads were created and joined and the last subgrid wrote slot 26.
C4_Witness ==
    /\ PostJoin
    /\ Len(created) = NUM_THREADS
    /\ tfunc[NUM_THREADS - 1] = "checkSubgrid"
    /\ loc[NUM_THREADS - 1].index = NUM_THREADS - 1
    /\ Len(writes[NUM_THREADS - 1]) = 2

\* The writes a slot receives: its message, then its valid field, both by the
\* thread with the slot's index.
OwnWrites(s) == <<[by |-> s, field |-> "message"], [by |-> s, field |-> "valid"]>>

\* C5: every slot is written only by its own thread, once (one message, one
\* valid field), all slots are written when main is past the join, and no
\* slot changes after the join.
C5_WrittenOnceByOwner ==
    /\ [](\A s \in Tids :
            /\ Len(writes[s]) <= 2
            /\ writes[s] = SubSeq(OwnWrites(s), 1, Len(writes[s]))
            /\ PostJoin => writes[s] = OwnWrites(s))
    /\ [][PostJoin => (results' = results /\ writes' = writes)]_vars

\* A run has ended, every slot written once, one of them on the INVALID path.
C5_Witness ==
    /\ mainpc = "done"
    /\ \A s \in Tids : writes[s] = OwnWrites(s)
    /\ \E s \in Tids : loc[s].path = "INVALID"

\* C6: while main is in the reduction or printing phase every check thread
\* has written its slot and terminated.
C6_ReadOnlyAfterAllExited ==
    PostJoin => \A t \in Tids : tpc[t] = "done" /\ Len(writes[t]) = 2

\* main enters the reduction; before that it has been held in the join loop.
C6_Witness ==
    /\ mainpc = "reduce"
    /\ mi = 0
    /\ \A t \in Tids : tpc[t] = "done"

\* The threads between pthread_mutex_lock and pthread_mutex_unlock.
InCritical == {t \in Tids : tpc[t] \in {"msg", "valid", "unlock"}}

\* The message ends in the text of the verdict.
Says(msg, text) == Len(msg) > 0 /\ msg[Len(msg)] = text

\* C7: at most one thread is inside the critical section and it holds the
\* mutex; both fields of a slot are written inside it; after the join every
\* slot's message says "valid" exactly when valid = 1 and "INVALID" exactly
\* when valid = 0, and names the slot's own unit.
C7_NoTornSlot ==
    /\ Cardinality(InCritical) <= 1
    /\ \A t \in InCritical : mutex = [state |-> "locked", owner |-> t]
    /\ \A s \in Tids :
         Len(writes[s]) = 1 => s \in InCritical
    /\ PostJoin =>
         \A s \in Tids :
            /\ Says(results[s].message, ") is valid\n") <=> results[s].valid = 1
            /\ Says(results[s].message, ") is INVALID\n") <=> results[s].valid = 0
            /\ results[s].message = ExpectedMessage(s, results[s].valid = 1)

\* A thread is between its two writes while another waits for the mutex.
C7_Witness ==
    \E t, u \in Tids :
        /\ tpc[t] = "valid"
        /\ tpc[u] = "lock"
        /\ Len(writes[t]) = 1
        /\ mutex.owner = t

\* C8: for a grid whose rows, columns and subgrids are all permutations of
\* 1..9 every verdict stored is 1, the reduction leaves isValid true and the
\* run ends with the valid summary. (Stated by contraposition: a stored 0, a
\* false isValid or another summary occurs only for a grid that is not solved.)
C8_SolvedGridIsValid ==
    ( \/ \E t \in Stored : results[t].valid # 1
      \/ PostJoin /\ ~isValid
      \/ mainpc = "done" /\
           out[Len(out)] # <<"argv[1]", " contains a valid solution\n">> )
        => ~SolvedGrid(sudoku)

\* A run on a solved grid has ended.
C8_Witness ==
    /\ mainpc = "done"
    /\ SolvedGrid(sudoku)
    /\ isValid

\* The file is a solved grid with one cell overwritten by a value of 1..9
\* other than its own, which therefore is already in the cell's row.
RowDuplicateEdit(f) ==
    \E b \in Solved, r \in Idx, c \in Idx, v \in 1 .. SIZE :
        /\ v # b[Pos(r, c)]
        /\ f = Overwrite(b, r, c, v)

\* C9: for a solved grid with one cell overwritten by a value already in its
\* row the overall verdict is invalid and the INVALID slots are exactly the
\* units that contain a duplicated value.
C9_DuplicateMarksItsUnits ==
    (mainpc = "done" /\ RowDuplicateEdit(input)) =>
        /\ ~isValid
        /\ InvalidSlots = {s \in Tids : HasDuplicate(sudoku, UnitCells(s))}

\* Such a run has ended: three units INVALID, 24 valid.
C9_Witness ==
    /\ mainpc = "done"
    /\ RowDuplicateEdit(input)
    /\ Cardinality(InvalidSlots) = 3

\* C10: for any cell (r,c) holding a value outside 1..9 the slots of its row,
\* column and subgrid are INVALID and the overall verdict is invalid; the run
\* does not abort: it keeps stepping until main returns EXIT_SUCCESS after
\* printing 28 lines. Cell (4,4) = 0 makes slots 4, 13 and 22 INVALID.
C10_OutOfRangeIsAFinding ==
    /\ status \in {"running", "EXIT_SUCCESS"}
    /\ mainpc # "done" => ENABLED Next
    /\ mainpc # "load" =>
         \A r \in Idx, c \in Idx :
            sudoku[r][c] \notin 1 .. SIZE =>
               /\ \A s \in SlotsOfCell(r, c) \cap Stored : results[s].valid = 0
               /\ mainpc = "done" =>
                    /\ SlotsOfCell(r, c) \subseteq InvalidSlots
                    /\ ~isValid
    /\ mainpc = "done" =>
         /\ status = "EXIT_SUCCESS"
         /\ Len(out) = NUM_THREADS + 1
         /\ sudoku[4][4] = 0 => {4, 13, 22} \subseteq InvalidSlots

\* The run on the solved grid with (4,4) = 0 has ended.
C10_Witness ==
    /\ mainpc = "done"
    /\ input = Overwrite(Canonical, 4, 4, 0)
    /\ InvalidSlots = {4, 13, 22}
    /\ status = "EXIT_SUCCESS"

-----------------------------------------------------------------------------
\* C11, as the specification states it: on the canonical grid with the values
\* of (0,0) and (0,1) swapped the overall verdict is invalid and slot 0 (row 0)
\* is INVALID, while slots 9, 10 (columns 0, 1) and 18 (subgrid 0) are INVALID
\* exactly when the swap puts a duplicate into them.
C11_SwapMarksRowZero ==
    input = Swapped =>
        /\ 0 \in Stored => results[0].valid = 0
        /\ mainpc = "done" =>
             /\ ~isValid
             /\ \A s \in {9, 10, 18} :
                   results[s].valid = 0 <=> HasDuplicate(sudoku, UnitCells(s))

\* C11, amended: on that grid the overall verdict is invalid; slot 0 (row 0)
\* stays valid, because a swap inside the row leaves the row's digits what
\* they were; slots 9, 10 (columns 0, 1) and 18 (subgrid 0) are INVALID
\* exactly when the swap puts a duplicate into them, which it does in the two
\* columns and not in the subgrid.
C11_SwapKeepsRowZero ==
    input = Swapped =>
        /\ \A s \in {0, 9, 10, 18} \cap Stored :
              results[s].valid = 0 <=> HasDuplicate(sudoku, UnitCells(s))
        /\ 0 \in Stored => results[0].valid = 1
        /\ mainpc = "done" =>
             /\ ~isValid
             /\ InvalidSlots = {9, 10}

\* The run on the swapped grid has ended with row 0 valid and column 0 INVALID.
C11_Witness ==
    /\ mainpc = "done"
    /\ input = Swapped
    /\ results[0].valid = 1
    /\ results[9].valid = 0
    /\ ~isValid

-----------------------------------------------------------------------------
\* C12: when main is executed a second time on the same file, starting from
\* the result table and the mutex that the first execution left, the table
\* never differs from the one the first execution ended with, every slot
\* being written again by its thread; the second execution reaches the same
\* overall verdict, prints the same 28 lines and ends with the table the grid
\* determines.
C12_SecondRunRepeatsFirst ==
    run = 2 =>
        /\ results = first.results
        /\ mainpc \in {"print", "mutex_destroy", "final", "done"} =>
              isValid = first.isValid
        /\ mainpc = "done" =>
              /\ \A s \in Tids : Len(writes[s]) = 2
              /\ results = ExpectedResults(sudoku)
              /\ out = first.out \o first.out

\* The second execution has ended after its threads took the mutex that the
\* first execution had destroyed and wrote INVALID and valid slots again.
C12_Witness ==
    /\ run = 2
    /\ mainpc = "done"
    /\ ~isValid
    /\ \A s \in Tids : Len(writes[s]) = 2
    /\ \E s \in Tids : results[s].valid = 1

-----------------------------------------------------------------------------
\* C13: a file that can be opened and does not supply 81 integers is rejected
\* before any check thread is created: no thread is ever created for it, no
\* result slot is ever written, and main ends with a failure status.
C13_MalformedIsRejected ==
    (readable /\ Len(input) < SIZE * SIZE) =>
        /\ created = <<>>
        /\ \A t \in Tids : tpc[t] = "none"
        /\ \A s \in Tids : writes[s] = <<>> /\ results[s] = ZeroResult
        /\ mainpc = "done" => status = "EXIT_FAILURE"

\* What the program does with such a file: the run on 80 integers has ended
\* with all 27 threads created and joined, every slot written, and, the cell
\* that was never stored happening to hold the missing digit, the report of
\* a valid solution with EXIT_SUCCESS.
C13_Witness ==
    /\ readable
    /\ Len(input) = SIZE * SIZE - 1
    /\ mainpc = "done"
    /\ Len(created) = NUM_THREADS
    /\ \A s \in Tids : Len(writes[s]) = 2
    /\ isValid
    /\ status = "EXIT_SUCCESS"

-----------------------------------------------------------------------------
\* C14: under fair scheduling, for every grid, a check thread inspects at
\* most 9 cells and does not hold the mutex once it is past its unlock call;
\* every thread that asks for the mutex terminates, so none waits forever;
\* main eventually has joined all 27 threads, run the reduction and printed
\* the 27 lines and the overall verdict.
C14_EveryThreadTerminates ==
    /\ [](\A t \in Tids :
            /\ Len(loc[t].cells) <= SIZE
            /\ tpc[t] \in {"exit", "done"} => mutex.owner # t)
    /\ <>[](/\ \A t \in Tids : tpc[t] = "done"
            /\ mainpc = "done"
            /\ Len(joined) = NUM_THREADS
            /\ Len(out) = NUM_THREADS + 1
            /\ mutex.state = "destroyed")

\* A thread that stopped early on the INVALID path holds the mutex while
\* another thread, which inspected all 9 cells, waits for it.
C14_Witness ==
    \E t, u \in Tids :
        /\ tpc[t] \in {"msg", "valid", "unlock"}
        /\ mutex.owner = t
        /\ loc[t].path = "INVALID"
        /\ Len(loc[t].cells) < SIZE
        /\ tpc[u] = "lock"
        /\ Len(loc[u].cells) = SIZE

-----------------------------------------------------------------------------
\* The cells of the unit of slot s in the order of the claim: a row by
\* ascending column, a column by ascending row, a subgrid row by row.
ScanOrder(s) ==
    IF s < SIZE THEN [k \in 1 .. SIZE |-> <<s, k - 1>>]
    ELSE IF s < 2 * SIZE THEN [k \in 1 .. SIZE |-> <<k - 1, s - SIZE>>]
    ELSE LET br == (s - 2 * SIZE) \div 3
             bc == (s - 2 * SIZE) % 3
         IN  [k \in 1 .. SIZE |->
                <<3 * br + ((k - 1) \div 3), 3 * bc + ((k - 1) % 3)>>]

\* The values that g holds in the first n cells of the order.
ValuesBefore(g, order, n) == {g[order[k][1]][order[k][2]] : k \in 1 .. n}

\* The threads that have left their scan loop and have not terminated: their
\* locals exist.
Scanned == {t \in Tids : tpc[t] \notin {"none", "start", "done"}}

\* C15: a thread that has left its loop, up to its exit, has inspected a prefix of its unit's
\* cells in the fixed order (row: columns 0..8; column: rows 0..8; subgrid:
\* row-major); the cells before the last inspected one hold distinct values
\* of 1..9, so none of them is out of range or a repeat; it is on the INVALID path exactly when the last inspected cell is
\* such a cell, and on the valid path exactly when it inspected all 9 cells
\* and none was; what it stores in its slot is the verdict of its path.
C15_StopsAtFirstOffendingCell ==
    \A t \in Scanned :
        LET order  == ScanOrder(t)
            n      == Len(loc[t].cells)
            before == ValuesBefore(sudoku, order, n - 1)
            last   == sudoku[order[n][1]][order[n][2]]
            ok     == loc[t].path = "valid"
        IN  /\ n \in 1 .. SIZE
            /\ loc[t].cells = SubSeq(order, 1, n)
            /\ before \subseteq 1 .. SIZE
            /\ Cardinality(before) = n - 1
            /\ loc[t].path \in {"INVALID", "valid"}
            /\ loc[t].path = "INVALID" <=> (last \notin 1 .. SIZE \/ last \in before)
            /\ ok => n = SIZE
            /\ t \in Stored =>
                  /\ results[t].valid = (IF ok THEN 1 ELSE 0)
                  /\ results[t].message = ExpectedMessage(t, ok)

\* A row, a column and a subgrid thread have each stopped before the 9th
\* cell and stored INVALID, and another thread inspected all 9 cells and
\* stored valid.
C15_Witness ==
    /\ mainpc = "done"
    /\ \E r \in 0 .. 8, c \in 9 .. 17, b \in 18 .. 26 :
          \A t \in {r, c, b} :
              /\ Len(loc[t].cells) \in 2 .. (SIZE - 1)
              /\ results[t].valid = 0
    /\ \E t \in Tids : Len(loc[t].cells) = SIZE /\ results[t].valid = 1

-----------------------------------------------------------------------------
\* The threads that have been created and have not terminated.
Live == {t \in Tids : tpc[t] \notin {"none", "done"}}

\* C16: a thread that still has its cells to inspect does not hold the mutex
\* and can always take its step, whatever the other threads do; the scan ends
\* at the pthread_mutex_lock call without having touched the mutex; a thread
\* that waits for or holds the mutex has its verdict determined; and a live
\* thread that cannot step is at its pthread_mutex_lock call while another
\* thread holds the mutex.
C16_NoMutexDuringScan ==
    /\ [](\A t \in Live :
            /\ tpc[t] = "start" => mutex.owner # t /\ ENABLED ThreadStep(t)
            /\ tpc[t] \in {"lock", "msg", "valid", "unlock"} =>
                  loc[t].path \in {"INVALID", "valid"}
            /\ mutex.owner = t => tpc[t] \in {"msg", "valid", "unlock"}
            /\ ~ENABLED ThreadStep(t) =>
                  /\ tpc[t] = "lock"
                  /\ mutex.state = "locked"
                  /\ mutex.owner # t)
    /\ [][\A t \in Tids :
            (tpc[t] = "start" /\ tpc'[t] # "start") =>
                /\ tpc'[t] = "lock"
                /\ mutex' = mutex
                /\ results' = results]_vars

\* A thread is at the start of its scan, and can step, while another thread
\* holds the mutex between its two writes.
C16_Witness ==
    /\ mutex.state = "locked"
    /\ \E t \in Live :
          /\ tpc[t] = "start"
          /\ mutex.owner # t
          /\ tpc[mutex.owner] = "valid"
          /\ ENABLED ThreadStep(t)

-----------------------------------------------------------------------------
\* The grid that a file of 81 integers supplies.
GridOf(f) == [i \in Idx |-> [j \in Idx |-> f[Pos(i, j)]]]

\* The parameter blocks that main has filled.
Filled == {t \in Tids : params[t] # NoParams}

\* C17: from the creation of the first check thread to the end of the
\* program main's grid and the grid copy of every filled parameter block hold
\* the values loaded from the input, and no step changes them; a step in
\* which a thread moves changes neither the grid nor any parameter block,
\* and changes a result slot only if it is the slot of the moving thread.
C17_GridNeverMutated ==
    /\ [](created # <<>> =>
            /\ sudoku = GridOf(input)
            /\ \A t \in Filled : params[t].sudoku = sudoku)
    /\ [][created # <<>> =>
            /\ sudoku' = sudoku
            /\ \A t \in Filled : params'[t].sudoku = params[t].sudoku
            /\ \A t \in Live :
                  tpc'[t] # tpc[t] =>
                     /\ params' = params
                     /\ \A s \in Tids \ {t} : results'[s] = results[s]]_vars

\* The program has ended after threads wrote INVALID verdicts, with the grid
\* and all 27 copies still equal to the input.
C17_Witness ==
    /\ mainpc = "done"
    /\ ~isValid
    /\ sudoku = GridOf(input)
    /\ \A t \in Tids : params[t].sudoku = GridOf(input)

-----------------------------------------------------------------------------
\* C18: in all three routines, whatever the cells hold (0, negative values
\* and values above 9 included), every index applied to check[] is num - 1
\* for the value num of an inspected cell and lies in 0..8; an inspected cell
\* whose value is outside 1..9 ends the scan without any index being applied
\* for it.
C18_CheckIndexedInRange ==
    \A t \in Scanned :
        LET cells == loc[t].cells
            used  == loc[t].used
            n     == Len(cells)
            last  == sudoku[cells[n][1]][cells[n][2]]
        IN  /\ \A k \in 1 .. Len(used) :
                  /\ used[k] \in 0 .. (SIZE - 1)
                  /\ used[k] = sudoku[cells[k][1]][cells[k][2]] - 1
            /\ Len(used) = IF last \in 1 .. SIZE THEN n ELSE n - 1

\* A subgrid thread has met the value 10 after cells in range, applied no
\* index for it and stored INVALID.
C18_Witness ==
    \E t \in Scanned :
        /\ tfunc[t] = "checkSubgrid"
        /\ tpc[t] = "exit"
        /\ Len(loc[t].cells) >= 2
        /\ sudoku[loc[t].cells[Len(loc[t].cells)][1]]
                  [loc[t].cells[Len(loc[t].cells)][2]] = 10
        /\ Len(loc[t].used) = Len(loc[t].cells) - 1
        /\ results[t].valid = 0

-----------------------------------------------------------------------------
\* Slot s holds an INVALID verdict that its thread stored on its INVALID
\* path, with the message of that path.
WrittenInvalid(s) ==
    /\ results[s].valid = 0
    /\ writes[s] = OwnWrites(s)
    /\ loc[s].path = "INVALID"
    /\ results[s].message = ExpectedMessage(s, FALSE)

\* C19: from the moment main reaches the reduction no slot is in its initial
\* zero state: each of the 27 slots has had its message and its valid field
\* written by its thread; and when the reduction ends with isValid false, the
\* slot at which the loop stopped is one whose thread stored INVALID, never a
\* slot left unwritten.
C19_NoSlotLeftUnwritten ==
    PostJoin =>
        /\ \A s \in Tids :
              /\ results[s] # ZeroResult
              /\ results[s].message # <<>>
              /\ Len(writes[s]) = 2
        /\ (mainpc # "reduce" /\ ~isValid) => WrittenInvalid(mi)
        /\ (mainpc # "reduce" /\ isValid) => \A s \in Tids : results[s].valid = 1

\* The reduction has stopped at a slot whose thread stored INVALID while
\* other slots hold valid verdicts.
C19_Witness ==
    /\ mainpc = "print"
    /\ ~isValid
    /\ WrittenInvalid(mi)
    /\ \E s \in Tids : results[s].valid = 1
    /\ \A s \in Tids : results[s] # ZeroResult

-----------------------------------------------------------------------------
\* The parameter block of the thread of slot t, completely written: the row
\* for a row thread, the column for a column thread, the top-left cell of the
\* block for a subgrid thread, and a copy of main's grid.
CompleteParams(t) ==
    [row    |-> IF t < SIZE THEN t
                ELSE IF t < 2 * SIZE THEN 0
                ELSE 3 * ((t - 2 * SIZE) \div 3),
     col    |-> IF t < SIZE THEN 0
                ELSE IF t < 2 * SIZE THEN t - SIZE
                ELSE 3 * ((t - 2 * SIZE) % 3),
     sudoku |-> sudoku]

\* C20: a thread that has been created has its parameter block completely
\* written (row, col and the grid copy), and no step of main or of any
\* thread writes the block of a created thread, so a thread always reads the
\* block it was created with.
C20_ParamsFixedBeforeCreate ==
    /\ [](\A t \in Tids : tpc[t] # "none" => params[t] = CompleteParams(t))
    /\ [][\A t \in Tids : tpc[t] # "none" => params'[t] = params[t]]_vars

\* main is filling the block of a later thread, still unwritten, while a
\* thread created earlier has not yet read its own block.
C20_Witness ==
    /\ mainpc = "sub_fill"
    /\ params[MainSubIndex(mi, mj)] = NoParams
    /\ \E t \in Live : tpc[t] = "start" /\ params[t] = CompleteParams(t)

====
